---- MODULE Spec2Model ----
(***************************************************************************)
(* Model of the VerifyForge TypeScript SDK client (src/src/client.ts) and  *)
(* its error classes (src/src/errors.ts).                                  *)
(*                                                                         *)
(* State: the one client instance (its three readonly fields), the calls   *)
(* issued on it (each with its own AbortController, timer, request,        *)
(* response and promise state) and a clock that drives the timers.         *)
(*                                                                         *)
(* JavaScript values are records [t, n, s, items, map]; t is the type tag. *)
(* Strings that the code cuts at slashes (baseUrl, url) are sequences of   *)
(* fragments in which every "/" that matters is a fragment of its own.     *)
(* construction records the constructor's argument and what it threw.      *)
(***************************************************************************)
EXTENDS Integers, Sequences, FiniteSets, TLC

VARIABLES client, clientState, construction, calls, now

vars == <<client, clientState, construction, calls, now>>

-----------------------------------------------------------------------------
(* Bounds of the model *)

MaxCalls == 1

MaxConcurrent == 2

MaxTime == 2

-----------------------------------------------------------------------------
(* JavaScript values *)

Undef == [t |-> "undefined", n |-> 0, s |-> "", items |-> <<>>, map |-> {}]

Null == [t |-> "null", n |-> 0, s |-> "", items |-> <<>>, map |-> {}]

Num(k) == [t |-> "number", n |-> k, s |-> "", items |-> <<>>, map |-> {}]

Str(x) == [t |-> "string", n |-> 0, s |-> x, items |-> <<>>, map |-> {}]

Bool(b) == [t |-> "boolean", n |-> IF b THEN 1 ELSE 0, s |-> "", items |-> <<>>, map |-> {}]

Arr(xs) == [t |-> "array", n |-> 0, s |-> "", items |-> xs, map |-> {}]

Obj(m) == [t |-> "object", n |-> 0, s |-> "", items |-> <<>>, map |-> m]

\* ToBoolean: what `!x` and `x || y` test
Truthy(v) ==
  CASE v.t = "undefined" -> FALSE
    [] v.t = "null" -> FALSE
    [] v.t = "number" -> v.n # 0
    [] v.t = "string" -> v.s # ""
    [] v.t = "boolean" -> v.n = 1
    [] OTHER -> TRUE

\* the typeof operator
TypeOf(v) ==
  CASE v.t = "array" -> "object"
    [] v.t = "null" -> "object"
    [] OTHER -> v.t

IsArray(v) == v.t = "array"

\* a property read `v.k` throws a TypeError on null and undefined
CanRead(v) == v.t \notin {"undefined", "null"}

\* the value of `v.k` where the read does not throw
GetProp(v, k) ==
  IF v.t = "object" /\ \E p \in v.map : p[1] = k
    THEN (CHOOSE p \in v.map : p[1] = k)[2]
    ELSE Undef

\* x || y
OrElse(x, y) == IF Truthy(x) THEN x ELSE y

-----------------------------------------------------------------------------
(* errors.ts: the error classes *)

DocsUrl == "https://verifyforge.com/api-docs"

TaxonomyNames ==
  {"VerifyForgeError", "AuthenticationError", "RateLimitError",
   "InsufficientCreditsError", "ValidationError", "APIError", "NetworkError"}

\* an error thrown by the runtime or the transport, not by the SDK
NativeError(name, message) ==
  [name |-> name, message |-> message, statusCode |-> Undef,
   errorCode |-> Undef, details |-> Undef, docsUrl |-> ""]

NoError == NativeError("", "")

VerifyForgeError(message, statusCode, errorCode, details) ==
  [name |-> "VerifyForgeError", message |-> message, statusCode |-> statusCode,
   errorCode |-> errorCode, details |-> details, docsUrl |-> DocsUrl]

AuthenticationError(message) ==
  [VerifyForgeError(message, Num(401), Str("AUTHENTICATION_ERROR"), Undef)
     EXCEPT !.name = "AuthenticationError"]

RateLimitError(message) ==
  [VerifyForgeError(message, Num(429), Str("RATE_LIMIT_ERROR"), Undef)
     EXCEPT !.name = "RateLimitError"]

InsufficientCreditsError(message) ==
  [VerifyForgeError(message, Num(402), Str("INSUFFICIENT_CREDITS"), Undef)
     EXCEPT !.name = "InsufficientCreditsError"]

ValidationError(message, details) ==
  [VerifyForgeError(message, Num(400), Str("VALIDATION_ERROR"), details)
     EXCEPT !.name = "ValidationError"]

APIError(message, statusCode) ==
  [VerifyForgeError(message, Num(statusCode), Str("API_ERROR"), Undef)
     EXCEPT !.name = "APIError"]

NetworkError(message) ==
  [VerifyForgeError(message, Undef, Str("NETWORK_ERROR"), Undef)
     EXCEPT !.name = "NetworkError"]

\* error instanceof VerifyForgeError
IsVerifyForgeError(e) == e.name \in TaxonomyNames

-----------------------------------------------------------------------------
(* client.ts: the constructor *)

DefaultBaseUrl == <<"https://verifyforge.com">>

DefaultTimeout == 30000

NoClient == [apiKey |-> "", baseUrl |-> <<>>, timeout |-> 0]

\* str.replace(/\/$/, ''): removes one slash at the end of the string
StripTrailingSlash(u) ==
  IF Len(u) > 0 /\ u[Len(u)] = "/" THEN SubSeq(u, 1, Len(u) - 1) ELSE u

\* config.baseUrl?.replace(/\/$/, '') || 'https://verifyforge.com'
ResolveBaseUrl(b) ==
  IF ~b.defined THEN DefaultBaseUrl
  ELSE IF StripTrailingSlash(b.chars) = <<>> THEN DefaultBaseUrl
  ELSE StripTrailingSlash(b.chars)

\* config.timeout || 30000
ResolveTimeout(t) == IF Truthy(t) THEN t.n ELSE DefaultTimeout

\* a configuration object passed to the constructor
Config(apiKey, baseUrl, timeout) ==
  [apiKey |-> apiKey, baseUrl |-> baseUrl, timeout |-> timeout]

NoBaseUrl == [defined |-> FALSE, chars |-> <<>>]

BaseUrl(chars) == [defined |-> TRUE, chars |-> chars]

Configs ==
  {Config(Undef, NoBaseUrl, Undef),
   Config(Str(""), BaseUrl(<<"https://api.test">>), Num(1)),
   Config(Str("k1"), NoBaseUrl, Undef),
   Config(Str("k1"), BaseUrl(<<"https://api.test", "/">>), Num(1))}

\* line 50: what the constructor throws without an API key
ApiKeyRequired == NativeError("Error", "API key is required")

\* the constructor has not been called
NotConstructed ==
  [called |-> FALSE, config |-> Config(Undef, NoBaseUrl, Undef), error |-> NoError]

\* Construct without the check of the API key
ConstructUnchecked(config) ==
  /\ clientState = "none"
  /\ clientState' = "ready"
  /\ client' = [apiKey |-> config.apiKey.s,
                baseUrl |-> ResolveBaseUrl(config.baseUrl),
                timeout |-> ResolveTimeout(config.timeout)]
  /\ construction' = [called |-> TRUE, config |-> config, error |-> NoError]
  /\ UNCHANGED <<calls, now>>

Construct(config) ==
  /\ clientState = "none"
  /\ IF ~Truthy(config.apiKey)
       THEN /\ clientState' = "failed"
            /\ client' = client
            /\ construction' = [called |-> TRUE, config |-> config,
                                error |-> ApiKeyRequired]
       ELSE /\ clientState' = "ready"
            /\ client' = [apiKey |-> config.apiKey.s,
                          baseUrl |-> ResolveBaseUrl(config.baseUrl),
                          timeout |-> ResolveTimeout(config.timeout)]
            /\ construction' = [called |-> TRUE, config |-> config, error |-> NoError]
  /\ UNCHANGED <<calls, now>>

getBaseUrl == client.baseUrl

getTimeout == client.timeout

-----------------------------------------------------------------------------
(* client.ts: makeRequest, up to the transport call *)

\* URLSearchParams.toString() percent-encodes each value
\* (application/x-www-form-urlencoded); the table covers the model's emails
FormEncode(x) ==
  CASE x = "a@b.com" -> "a%40b.com"
    [] x = "c d@e.com" -> "c+d%40e.com"
    [] OTHER -> x

\* what the server reads back from an encoded query value
FormDecode(x) ==
  CASE x = "a%40b.com" -> "a@b.com"
    [] x = "c+d%40e.com" -> "c d@e.com"
    [] OTHER -> x

\* String(value)
JsString(v) ==
  CASE v.t = "string" -> v.s
    [] v.t = "undefined" -> "undefined"
    [] v.t = "null" -> "null"
    [] v.t = "number" -> "number"
    [] OTHER -> "[object]"

\* the entries of params that searchParams.append receives, key order kept
QueryFragments(params) ==
  LET keys == {p[1] : p \in {q \in params.map : q[2].t \notin {"undefined", "null"}}}
      F[ks \in SUBSET keys] ==
        IF ks = {} THEN <<>>
        ELSE LET k == CHOOSE x \in ks : TRUE
             IN  <<k, "=", FormEncode(JsString(GetProp(params, k)))>> \o F[ks \ {k}]
  IN F[keys]

\* `${this.baseUrl}${endpoint}` and, for GET with params, `?` and the query
BuildUrl(method, endpoint, params) ==
  IF method = "GET" /\ Truthy(params)
    THEN client.baseUrl \o <<endpoint, "?">> \o QueryFragments(params)
    ELSE client.baseUrl \o <<endpoint>>

\* JSON.stringify(params): the JSON text, kept as the value it denotes
JsonStringify(v) == [json |-> TRUE, value |-> v]

NoBody == [json |-> FALSE, value |-> Undef]

Headers ==
  {<<"X-API-Key", client.apiKey>>,
   <<"Content-Type", "application/json">>,
   <<"Accept", "application/json">>,
   <<"User-Agent", "VerifyForge-TypeScript-SDK/1.0.0">>}

\* the arguments of fetch(url, {method, headers, body, signal})
BuildRequest(method, endpoint, params) ==
  [method |-> method,
   url |-> BuildUrl(method, endpoint, params),
   headers |-> Headers,
   body |-> IF method = "POST" /\ Truthy(params) THEN JsonStringify(params) ELSE NoBody]

NoRequest == [method |-> "", url |-> <<>>, headers |-> {}, body |-> NoBody]

\* a response body as the transport delivers it: JSON text of a value, text
\* that is no JSON, or no text at all
JsonBody(v) == [raw |-> "json", value |-> v]

MalformedBody == [raw |-> "malformed", value |-> Undef]

EmptyBody == [raw |-> "empty", value |-> Undef]

NoResponse == [status |-> 0, body |-> EmptyBody]

\* a call that has not passed its input check: nothing issued, nothing armed
NewCall(op, arg) ==
  [op |-> op, arg |-> arg, pc |-> "rejected", request |-> NoRequest,
   fetches |-> 0, aborted |-> FALSE, timer |-> "none", issuedAt |-> 0, due |-> 0,
   responded |-> FALSE, response |-> NoResponse, site |-> "", bodyReads |-> 0,
   bodyLost |-> FALSE, raised |-> NoError,
   value |-> Undef, error |-> NoError]

\* lines 72-99: build the request, create the controller, arm the timer and
\* hand the request to the transport; the call suspends on the fetch promise
IssueRequest(op, arg, method, endpoint, params) ==
  [NewCall(op, arg) EXCEPT
     !.pc = "fetching",
     !.request = BuildRequest(method, endpoint, params),
     !.fetches = 1,
     !.timer = "armed",
     !.issuedAt = now,
     !.due = now + client.timeout]

\* the promise is rejected with e
Rejected(call, e) == [call EXCEPT !.pc = "rejected", !.error = e]

\* the promise is resolved with v
Resolved(call, v) == [call EXCEPT !.pc = "resolved", !.value = v]

Pending(call) == call.pc \in {"fetching", "reading"}

-----------------------------------------------------------------------------
(* client.ts: makeRequest, the catch block *)

\* Catch with the test of the error's name missing: every error that is not
\* of the taxonomy is reported as a timeout
CatchAllTimeout(error) ==
  IF error.name \in TaxonomyNames THEN error
  ELSE NetworkError("Request timed out")

\* Catch without the final wrapping: an unclassified error is rethrown as is
CatchRethrow(error) ==
  IF error.name \in TaxonomyNames THEN error
  ELSE IF error.name = "AbortError"
    THEN NetworkError("Request timed out")
  ELSE IF error.name = "TypeError"
    THEN NetworkError("Network request failed")
  ELSE error

\* error instanceof Error; a thrown value that is no Error has no name
IsError(error) == error.name # ""

\* lines 139-161: the error the promise is rejected with when `error` is
\* thrown inside the try block
Catch(error) ==
  IF IsVerifyForgeError(error) THEN error
  ELSE IF error.name = "AbortError" THEN NetworkError("Request timed out")
  ELSE IF error.name = "TypeError" THEN NetworkError("Network request failed")
  ELSE VerifyForgeError(IF IsError(error) THEN error.message
                        ELSE "Unknown error occurred",
                        Undef, Undef, Undef)

\* what controller.abort() makes the pending fetch reject with
AbortError == NativeError("AbortError", "This operation was aborted")

\* what fetch rejects with on a transport failure (connection refused, DNS)
FetchTypeError == NativeError("TypeError", "fetch failed")

\* what a property read on null throws
NullReadTypeError == NativeError("TypeError", "Cannot read properties of null")

\* what response.json() rejects with on text that is no JSON
JsonSyntaxError(body) ==
  IF body.raw = "empty"
    THEN NativeError("SyntaxError", "Unexpected end of JSON input")
    ELSE NativeError("SyntaxError", "Unexpected token in JSON")

\* the settled result of response.json() on a fully delivered body
JsonResult(body) ==
  IF body.raw = "json"
    THEN [ok |-> TRUE, value |-> body.value, error |-> NoError]
    ELSE [ok |-> FALSE, value |-> Undef, error |-> JsonSyntaxError(body)]

\* the result of response.json() when the connection breaks during the body
JsonStreamFailure ==
  [ok |-> FALSE, value |-> Undef, error |-> NativeError("TypeError", "terminated")]

\* e is thrown inside the try block of the call: the catch block decides
\* what the promise is rejected with
Thrown(call, e) == Rejected([call EXCEPT !.raised = e], Catch(e))

-----------------------------------------------------------------------------
(* client.ts: makeRequest, the status dispatch *)

\* HandleStatus with the 429 test missing: 429 falls through to the generic
\* non-2xx branch, which reads the body
HandleStatusNo429(status) ==
  IF status = 401 THEN [throws |-> TRUE, error |-> AuthenticationError("Invalid API key"), site |-> ""]
  ELSE IF status = 402 THEN [throws |-> TRUE, error |-> InsufficientCreditsError("Insufficient credits"), site |-> ""]
  ELSE IF status = 400 THEN [throws |-> FALSE, error |-> NoError, site |-> "400"]
  ELSE IF status >= 500 THEN [throws |-> TRUE, error |-> APIError("Internal server error", status), site |-> ""]
  ELSE IF ~(status >= 200 /\ status <= 299) THEN [throws |-> FALSE, error |-> NoError, site |-> "notok"]
  ELSE [throws |-> FALSE, error |-> NoError, site |-> "ok"]

Ok(status) == status >= 200 /\ status <= 299

\* lines 104-138, up to the first await: either an error is thrown at once,
\* or the body is read at one of three places ("400", "notok", "ok")
HandleStatus(status) ==
  IF status = 401 THEN [throws |-> TRUE, error |-> AuthenticationError("Invalid API key"), site |-> ""]
  ELSE IF status = 402 THEN [throws |-> TRUE, error |-> InsufficientCreditsError("Insufficient credits"), site |-> ""]
  ELSE IF status = 429 THEN [throws |-> TRUE, error |-> RateLimitError("Rate limit exceeded"), site |-> ""]
  ELSE IF status = 400 THEN [throws |-> FALSE, error |-> NoError, site |-> "400"]
  ELSE IF status >= 500 THEN [throws |-> TRUE, error |-> APIError("Internal server error", status), site |-> ""]
  ELSE IF ~Ok(status) THEN [throws |-> FALSE, error |-> NoError, site |-> "notok"]
  ELSE [throws |-> FALSE, error |-> NoError, site |-> "ok"]

\* lines 117-121: the 400 branch once response.json() has settled with r
After400(r) ==
  IF ~r.ok THEN [throws |-> TRUE, error |-> r.error, value |-> Undef]
  ELSE IF ~CanRead(r.value) THEN [throws |-> TRUE, error |-> NullReadTypeError, value |-> Undef]
  ELSE [throws |-> TRUE,
        error |-> ValidationError(
                    JsString(OrElse(GetProp(r.value, "error"), Str("Validation failed"))),
                    GetProp(r.value, "details")),
        value |-> Undef]

\* lines 129-135: the other non-2xx branch; a rejected json() is replaced by
\* {error: 'Request failed'}
AfterNotOk(r, status) ==
  LET errorData == IF r.ok THEN r.value ELSE Obj({<<"error", Str("Request failed")>>})
  IN  IF ~CanRead(errorData)
        THEN [throws |-> TRUE, error |-> NullReadTypeError, value |-> Undef]
        ELSE [throws |-> TRUE,
              error |-> APIError(
                          JsString(OrElse(GetProp(errorData, "error"), Str("Request failed"))),
                          status),
              value |-> Undef]

\* AfterOk that unwraps the envelope and returns its data field only
AfterOkUnwrapped(r) ==
  IF r.ok THEN [throws |-> FALSE, error |-> NoError, value |-> GetProp(r.value, "data")]
  ELSE [throws |-> TRUE, error |-> r.error, value |-> Undef]

\* line 138: the 2xx branch
AfterOk(r) ==
  IF r.ok THEN [throws |-> FALSE, error |-> NoError, value |-> r.value]
  ELSE [throws |-> TRUE, error |-> r.error, value |-> Undef]

\* the continuation of makeRequest after the await at `site`
AfterJson(site, status, r) ==
  CASE site = "400" -> After400(r)
    [] site = "notok" -> AfterNotOk(r, status)
    [] OTHER -> AfterOk(r)

-----------------------------------------------------------------------------
(* client.ts: the two public operations *)

MaxBulkEmails == 100

\* ValidateInputBad without the typeof test
ValidateInputBadNoTypeof(email) == ~Truthy(email)

\* line 188: the input check of validate
ValidateInputBad(email) == ~Truthy(email) \/ TypeOf(email) # "string"

\* line 222: the first input check of validateBulk
BulkInputBad(emails) == ~IsArray(emails) \/ Len(emails.items) = 0

\* BulkTooLong with >= for >
BulkTooLongOffByOne(emails) == Len(emails.items) >= 100

\* line 226: the ceiling check of validateBulk
BulkTooLong(emails) == Len(emails.items) > MaxBulkEmails

\* lines 187-195
ValidateCall(email) ==
  IF ValidateInputBad(email)
    THEN Rejected(NewCall("validate", email),
                  ValidationError("Email must be a non-empty string", Undef))
    ELSE IssueRequest("validate", email, "GET", "/api/validate",
                      Obj({<<"email", email>>}))

\* lines 221-238
ValidateBulkCall(emails) ==
  IF BulkInputBad(emails)
    THEN Rejected(NewCall("validateBulk", emails),
                  ValidationError("Emails must be a non-empty array", Undef))
  ELSE IF BulkTooLong(emails)
    THEN Rejected(NewCall("validateBulk", emails),
                  ValidationError("Maximum 100 emails allowed per request",
                                  Obj({<<"provided", Num(Len(emails.items))>>,
                                       <<"maximum", Num(MaxBulkEmails)>>})))
  ELSE IssueRequest("validateBulk", emails, "POST", "/api/validate/bulk",
                    Obj({<<"emails", emails>>}))

-----------------------------------------------------------------------------
(* Actions *)

\* client.validate(email) is invoked
Validate(limit, email) ==
  /\ clientState = "ready"
  /\ Len(calls) < limit
  /\ calls' = Append(calls, ValidateCall(email))
  /\ UNCHANGED <<client, clientState, construction, now>>

\* client.validateBulk(emails) is invoked
ValidateBulk(limit, emails) ==
  /\ clientState = "ready"
  /\ Len(calls) < limit
  /\ calls' = Append(calls, ValidateBulkCall(emails))
  /\ UNCHANGED <<client, clientState, construction, now>>

\* the fetch promise of call i resolves with the status line and headers;
\* line 101 clears the timer and the dispatch runs up to its first await
FetchResolve(i, status, body) ==
  /\ i \in DOMAIN calls
  /\ calls[i].pc = "fetching"
  /\ LET h == HandleStatus(status)
         got == [calls[i] EXCEPT !.timer = "cleared", !.responded = TRUE,
                                 !.response = [status |-> status, body |-> body]]
     IN  calls' = [calls EXCEPT ![i] =
                     IF h.throws THEN Thrown(got, h.error)
                     ELSE [got EXCEPT !.pc = "reading", !.site = h.site,
                                      !.bodyReads = @ + 1]]
  /\ UNCHANGED <<client, clientState, construction, now>>

\* FetchFail with a retry: the failed request is handed to the transport again
FetchFailRetry(i) ==
  /\ i \in DOMAIN calls
  /\ calls[i].pc = "fetching"
  /\ calls[i].fetches < 2
  /\ calls' = [calls EXCEPT ![i].fetches = @ + 1]
  /\ UNCHANGED <<client, clientState, construction, now>>

\* the fetch promise of call i rejects with a transport failure
FetchFail(i) ==
  /\ i \in DOMAIN calls
  /\ calls[i].pc = "fetching"
  /\ calls' = [calls EXCEPT ![i] =
                 Thrown([calls[i] EXCEPT !.timer = "cleared"], FetchTypeError)]
  /\ UNCHANGED <<client, clientState, construction, now>>

\* TimerFire with one AbortController shared by the calls of the client: the
\* timer of call i aborts every fetch in flight
TimerFireShared(i) ==
  /\ i \in DOMAIN calls
  /\ calls[i].timer = "armed"
  /\ now >= calls[i].due
  /\ calls' = [j \in DOMAIN calls |->
                 IF calls[j].pc = "fetching"
                   THEN [calls[j] EXCEPT !.pc = "rejected",
                                         !.timer = IF j = i THEN "fired" ELSE "cleared",
                                         !.aborted = TRUE,
                                         !.error = Catch(AbortError)]
                   ELSE calls[j]]
  /\ UNCHANGED <<client, clientState, construction, now>>

\* line 86: the timer of call i fires and aborts the controller of call i;
\* the pending fetch rejects with an AbortError, which the catch block maps
TimerFire(i) ==
  /\ i \in DOMAIN calls
  /\ calls[i].timer = "armed"
  /\ now >= calls[i].due
  /\ calls' = [calls EXCEPT ![i] =
                 Thrown([calls[i] EXCEPT !.timer = "fired", !.aborted = TRUE],
                        AbortError)]
  /\ UNCHANGED <<client, clientState, construction, now>>

\* response.json() of call i settles on the delivered body
JsonSettle(i) ==
  /\ i \in DOMAIN calls
  /\ calls[i].pc = "reading"
  /\ LET a == AfterJson(calls[i].site, calls[i].response.status,
                        JsonResult(calls[i].response.body))
     IN  calls' = [calls EXCEPT ![i] =
                     IF a.throws THEN Thrown(calls[i], a.error)
                     ELSE Resolved(calls[i], a.value)]
  /\ UNCHANGED <<client, clientState, construction, now>>

\* response.json() of call i rejects because the connection broke mid-body
JsonStreamFail(i) ==
  /\ i \in DOMAIN calls
  /\ calls[i].pc = "reading"
  /\ LET a == AfterJson(calls[i].site, calls[i].response.status, JsonStreamFailure)
         lost == [calls[i] EXCEPT !.bodyLost = TRUE]
     IN  calls' = [calls EXCEPT ![i] =
                     IF a.throws THEN Thrown(lost, a.error)
                     ELSE Resolved(lost, a.value)]
  /\ UNCHANGED <<client, clientState, construction, now>>

ArmedDues == {calls[i].due : i \in {j \in DOMAIN calls : calls[j].timer = "armed"}}

\* time passes while a call is in flight; an armed timer fires when it is
\* due, so the clock does not pass the due time of an armed timer
Tick ==
  /\ \E i \in DOMAIN calls : Pending(calls[i])
  /\ \/ /\ now < MaxTime
        /\ \A d \in ArmedDues : now + 1 <= d
        /\ now' = now + 1
     \/ /\ ArmedDues # {}
        /\ \A d \in ArmedDues : now < d
        /\ now' = CHOOSE d \in ArmedDues : \A e \in ArmedDues : d <= e
  /\ UNCHANGED <<client, clientState, construction, calls>>

-----------------------------------------------------------------------------
(* Inputs and responses *)

\* n addresses, in a fixed order, with repetitions
Emails(n) == [k \in 1..n |-> IF k % 3 = 0 THEN "c d@e.com" ELSE "a@b.com"]

EmailArgs ==
  {Undef, Null, Num(0), Num(42), Str(""), Str("c d@e.com"), Arr(<<"a@b.com">>)}

BulkArgs ==
  {Undef, Str("a@b.com"), Arr(Emails(0)),
   Arr(Emails(MaxBulkEmails)), Arr(Emails(MaxBulkEmails + 1))}

Statuses == {200, 400, 401, 402, 404, 429, 500, 503}

ErrorPayload == 
  Obj({<<"success", Bool(FALSE)>>, <<"error", Str("bad email")>>,
       <<"details", Obj({<<"field", Str("email")>>})>>})

SuccessPayload ==
  Obj({<<"success", Bool(TRUE)>>, <<"creditsUsed", Num(1)>>,
       <<"remainingCredits", Num(99)>>})

Bodies ==
  {MalformedBody, EmptyBody, JsonBody(Null),
   JsonBody(Obj({<<"success", Bool(FALSE)>>, <<"error", Str("")>>})),
   JsonBody(ErrorPayload), JsonBody(SuccessPayload)}

-----------------------------------------------------------------------------
(* Specifications *)

Init ==
  /\ client = NoClient
  /\ clientState = "none"
  /\ construction = NotConstructed
  /\ calls = <<>>
  /\ now = 0

Next ==
  \/ \E config \in Configs : Construct(config)
  \/ \E email \in EmailArgs : Validate(MaxCalls, email)
  \/ \E emails \in BulkArgs : ValidateBulk(MaxCalls, emails)
  \/ \E i \in 1..MaxCalls, status \in Statuses, body \in Bodies : FetchResolve(i, status, body)
  \/ \E i \in 1..MaxCalls : FetchFail(i)
  \/ \E i \in 1..MaxCalls : TimerFire(i)
  \/ \E i \in 1..MaxCalls : JsonSettle(i)
  \/ \E i \in 1..MaxCalls : JsonStreamFail(i)
  \/ Tick

Spec == Init /\ [][Next]_vars

\* several calls in flight on one client, over a small set of inputs and
\* responses, to cover the interleavings of completions and timers
ConcurrentConfigs == {Config(Str("k1"), BaseUrl(<<"https://api.test">>), Num(1))}

ConcurrentEmailArgs == {Str(""), Str("a@b.com")}

ConcurrentBulkArgs == {Arr(Emails(2))}

ConcurrentStatuses == {200, 401}

ConcurrentBodies == {MalformedBody, JsonBody(SuccessPayload)}

NextConcurrent ==
  \/ \E config \in ConcurrentConfigs : Construct(config)
  \/ \E email \in ConcurrentEmailArgs : Validate(MaxConcurrent, email)
  \/ \E emails \in ConcurrentBulkArgs : ValidateBulk(MaxConcurrent, emails)
  \/ \E i \in 1..MaxConcurrent, status \in ConcurrentStatuses, body \in ConcurrentBodies :
       FetchResolve(i, status, body)
  \/ \E i \in 1..MaxConcurrent : FetchFail(i)
  \/ \E i \in 1..MaxConcurrent : TimerFire(i)
  \/ \E i \in 1..MaxConcurrent : JsonSettle(i)
  \/ \E i \in 1..MaxConcurrent : JsonStreamFail(i)
  \/ Tick

SpecConcurrent == Init /\ [][NextConcurrent]_vars

\* successful responses with ordered lists in them, over a small set of inputs
MxRecord(exchange, priority) ==
  Obj({<<"exchange", Str(exchange)>>, <<"priority", Num(priority)>>})

ValidationPayload ==
  Obj({<<"success", Bool(TRUE)>>,
       <<"data", Obj({<<"email", Str("a@b.com")>>, <<"isValid", Bool(TRUE)>>,
                      <<"mxRecordsList",
                        Arr(<<MxRecord("mx2.b.com", 20), MxRecord("mx1.b.com", 10)>>)>>,
                      <<"reachability", Str("safe")>>})>>,
       <<"creditsUsed", Num(1)>>,
       <<"remainingCredits", Num(99)>>})

BulkResult(email, isValid) ==
  Obj({<<"email", Str(email)>>, <<"isValid", Bool(isValid)>>})

BulkPayload ==
  Obj({<<"success", Bool(TRUE)>>,
       <<"data", Obj({<<"results",
                        Arr(<<BulkResult("c d@e.com", FALSE), BulkResult("a@b.com", TRUE)>>)>>,
                      <<"summary", Obj({<<"total", Num(2)>>,
                                        <<"duplicatesRemoved", Num(1)>>})>>})>>,
       <<"creditsUsed", Num(2)>>,
       <<"remainingCredits", Num(97)>>})

SuccessConfigs == {Config(Str("k1"), NoBaseUrl, Num(1))}

SuccessEmailArgs == {Str("a@b.com")}

SuccessBulkArgs == {Arr(Emails(3))}

SuccessStatuses == {200, 201, 404}

SuccessBodies ==
  {EmptyBody, JsonBody(Null), JsonBody(ValidationPayload), JsonBody(BulkPayload)}

NextSuccess ==
  \/ \E config \in SuccessConfigs : Construct(config)
  \/ \E email \in SuccessEmailArgs : Validate(MaxCalls, email)
  \/ \E emails \in SuccessBulkArgs : ValidateBulk(MaxCalls, emails)
  \/ \E i \in 1..MaxCalls, status \in SuccessStatuses, body \in SuccessBodies :
       FetchResolve(i, status, body)
  \/ \E i \in 1..MaxCalls : FetchFail(i)
  \/ \E i \in 1..MaxCalls : TimerFire(i)
  \/ \E i \in 1..MaxCalls : JsonSettle(i)
  \/ \E i \in 1..MaxCalls : JsonStreamFail(i)
  \/ Tick

SpecSuccess == Init /\ [][NextSuccess]_vars

\* the constructor over a wider set of configurations, with few calls after it
ConstructConfigs ==
  [apiKey : {Undef, Str(""), Str("k1"), Str("k2")},
   baseUrl : {NoBaseUrl, BaseUrl(<<>>), BaseUrl(<<"/">>),
              BaseUrl(<<"https://api.test">>),
              BaseUrl(<<"https://api.test", "/">>),
              BaseUrl(<<"https://api.test", "/", "/">>),
              BaseUrl(<<"https://api.test", "/", "v1">>),
              BaseUrl(<<"https://api.test", "/", "v1", "/">>)},
   timeout : {Undef, Num(0), Num(1)}]

ConstructEmailArgs == {Str(""), Str("a@b.com")}

ConstructBulkArgs == {Arr(Emails(2))}

ConstructStatuses == {200, 401}

ConstructBodies == {JsonBody(SuccessPayload)}

NextConstruct ==
  \/ \E config \in ConstructConfigs : Construct(config)
  \/ \E email \in ConstructEmailArgs : Validate(MaxCalls, email)
  \/ \E emails \in ConstructBulkArgs : ValidateBulk(MaxCalls, emails)
  \/ \E i \in 1..MaxCalls, status \in ConstructStatuses, body \in ConstructBodies :
       FetchResolve(i, status, body)
  \/ \E i \in 1..MaxCalls : FetchFail(i)
  \/ \E i \in 1..MaxCalls : TimerFire(i)
  \/ \E i \in 1..MaxCalls : JsonSettle(i)
  \/ \E i \in 1..MaxCalls : JsonStreamFail(i)
  \/ Tick

SpecConstruct == Init /\ [][NextConstruct]_vars

-----------------------------------------------------------------------------
(* Shapes of the state *)

Settled(call) == call.pc \in {"resolved", "rejected"}

CallIds == DOMAIN calls

TypeOK ==
  /\ clientState \in {"none", "ready", "failed"}
  /\ now \in Nat
  /\ \A i \in CallIds :
       /\ calls[i].pc \in {"fetching", "reading", "resolved", "rejected"}
       /\ calls[i].timer \in {"none", "armed", "cleared", "fired"}
       /\ calls[i].op \in {"validate", "validateBulk"}
       /\ (calls[i].timer = "armed") = (calls[i].pc = "fetching")

-----------------------------------------------------------------------------
(* Claims *)

\* the body of the call's response was delivered whole and is JSON text
Decoded(call) == ~call.bodyLost /\ call.response.body.raw = "json"

\* the error text of the call's decoded error body, "" when there is none
ErrorText(call) ==
  IF Decoded(call) /\ call.response.body.value.t = "object"
       /\ GetProp(call.response.body.value, "error").t = "string"
    THEN GetProp(call.response.body.value, "error").s
    ELSE ""

\* the details of the call's decoded error body
BodyDetails(call) ==
  IF Decoded(call) /\ call.response.body.value.t = "object"
    THEN GetProp(call.response.body.value, "details")
    ELSE Undef

\* C1: a call whose response has status 401, 402 or 429 is rejected with the
\* Authentication error "Invalid API key", the InsufficientCredits error
\* "Insufficient credits" or the RateLimit error "Rate limit exceeded"
\* respectively, for validate and validateBulk alike and whatever the body
\* of the response is, and response.json() is never called on it.
C1_FixedStatusErrors ==
  \A i \in CallIds :
    (calls[i].responded /\ calls[i].response.status \in {401, 402, 429}) =>
      /\ calls[i].pc = "rejected"
      /\ calls[i].bodyReads = 0
      /\ calls[i].error.name =
           (CASE calls[i].response.status = 401 -> "AuthenticationError"
              [] calls[i].response.status = 402 -> "InsufficientCreditsError"
              [] OTHER -> "RateLimitError")
      /\ calls[i].error.message =
           (CASE calls[i].response.status = 401 -> "Invalid API key"
              [] calls[i].response.status = 402 -> "Insufficient credits"
              [] OTHER -> "Rate limit exceeded")

\* C1 witness: a validateBulk call answered 429 with a malformed body
C1_Witness ==
  \E i \in CallIds :
    /\ calls[i].op = "validateBulk"
    /\ calls[i].responded
    /\ calls[i].response.status = 429
    /\ calls[i].response.body = MalformedBody
    /\ calls[i].pc = "rejected"

\* C2: every settled call whose response has status 400 is rejected with a
\* Validation error whose message is the error text of the body when that is
\* present and non-empty and "Validation failed" otherwise, and whose
\* details are the details of the body, whatever the body is.
C2_Status400AlwaysValidation ==
  \A i \in CallIds :
    (Settled(calls[i]) /\ calls[i].responded /\ calls[i].response.status = 400) =>
      /\ calls[i].pc = "rejected"
      /\ calls[i].error.name = "ValidationError"
      /\ calls[i].error.message =
           (IF ErrorText(calls[i]) # ""
              THEN ErrorText(calls[i]) ELSE "Validation failed")
      /\ calls[i].error.details = BodyDetails(calls[i])

\* C3: every settled call whose response has a non-2xx status other than
\* 400, 401, 402 and 429 is rejected with an API error carrying that status;
\* its message is "Internal server error" for a status >= 500 (the body is
\* not read) and otherwise the error text of the body, or "Request failed"
\* when the body cannot be decoded or has no error text.
C3_OtherStatusAlwaysApi ==
  \A i \in CallIds :
    (/\ Settled(calls[i])
     /\ calls[i].responded
     /\ ~(calls[i].response.status >= 200 /\ calls[i].response.status <= 299)
     /\ calls[i].response.status \notin {400, 401, 402, 429}) =>
      /\ calls[i].pc = "rejected"
      /\ calls[i].error.name = "APIError"
      /\ calls[i].error.statusCode = Num(calls[i].response.status)
      /\ IF calls[i].response.status >= 500
           THEN calls[i].error.message = "Internal server error"
                /\ calls[i].bodyReads = 0
           ELSE calls[i].error.message =
                  (IF ErrorText(calls[i]) # ""
                     THEN ErrorText(calls[i]) ELSE "Request failed")

\* C4: a validate call whose argument is the empty string or no string is
\* rejected with a Validation error and reaches the transport zero times; a
\* validate call with a non-empty string has issued one GET to
\* <endpoint root>/api/validate?email=<the encoded email>, without a body.
C4_ValidateInputCheck ==
  \A i \in CallIds :
    calls[i].op = "validate" =>
      IF calls[i].arg.t = "string" /\ calls[i].arg.s # ""
        THEN /\ calls[i].fetches = 1
             /\ calls[i].request.method = "GET"
             /\ calls[i].request.url =
                  client.baseUrl \o <<"/api/validate", "?", "email", "=",
                                      FormEncode(calls[i].arg.s)>>
             /\ FormDecode(calls[i].request.url[Len(calls[i].request.url)]) = calls[i].arg.s
             /\ calls[i].request.body = NoBody
        ELSE /\ calls[i].pc = "rejected"
             /\ calls[i].error.name = "ValidationError"
             /\ calls[i].fetches = 0
             /\ calls[i].request = NoRequest
             /\ calls[i].timer = "none"
             /\ ~calls[i].responded

\* C4 witness: validate called with a number other than 0 has been rejected
C4_Witness ==
  \E i \in CallIds :
    /\ calls[i].op = "validate"
    /\ calls[i].arg = Num(42)
    /\ calls[i].pc = "rejected"
    /\ calls[i].fetches = 0

\* C5: a validateBulk call whose argument is no array, is empty or has more
\* than 100 items is rejected with a Validation error and reaches the
\* transport zero times, with details {provided: length, maximum: 100} in
\* the last case; a call with 1 to 100 items has issued one POST to
\* <endpoint root>/api/validate/bulk whose body is the JSON text of
\* {emails: the argument}, items and order unchanged.
C5_BulkInputCheck ==
  \A i \in CallIds :
    calls[i].op = "validateBulk" =>
      IF calls[i].arg.t = "array" /\ Len(calls[i].arg.items) >= 1
           /\ Len(calls[i].arg.items) <= 100
        THEN /\ calls[i].fetches = 1
             /\ calls[i].request.method = "POST"
             /\ calls[i].request.url = client.baseUrl \o <<"/api/validate/bulk">>
             /\ calls[i].request.body.json
             /\ calls[i].request.body.value.map = {<<"emails", calls[i].arg>>}
             /\ GetProp(calls[i].request.body.value, "emails").items = calls[i].arg.items
        ELSE /\ calls[i].pc = "rejected"
             /\ calls[i].error.name = "ValidationError"
             /\ calls[i].fetches = 0
             /\ calls[i].request = NoRequest
             /\ calls[i].timer = "none"
             /\ ~calls[i].responded
             /\ (calls[i].arg.t = "array" /\ Len(calls[i].arg.items) > 100) =>
                  calls[i].error.details =
                    Obj({<<"provided", Num(Len(calls[i].arg.items))>>,
                         <<"maximum", Num(100)>>})

\* C5 witness: validateBulk called with exactly 100 items is in flight
C5_Witness ==
  \E i \in CallIds :
    /\ calls[i].op = "validateBulk"
    /\ Len(calls[i].arg.items) = 100
    /\ calls[i].fetches = 1
    /\ calls[i].request.method = "POST"

\* C6: a call whose deadline timer has fired was aborted before any response
\* arrived and is rejected with the Network error "Request timed out"; and a
\* call rejected with the Network error "Request timed out" is one whose own
\* timer has fired, its deadline having elapsed since it was issued.
C6_TimeoutIffTimerFired ==
  \A i \in CallIds :
    /\ calls[i].timer = "fired" =>
         /\ calls[i].aborted
         /\ ~calls[i].responded
         /\ calls[i].pc = "rejected"
         /\ calls[i].error = NetworkError("Request timed out")
    /\ (/\ calls[i].pc = "rejected"
        /\ calls[i].error.name = "NetworkError"
        /\ calls[i].error.message = "Request timed out") =>
         /\ calls[i].timer = "fired"
         /\ calls[i].aborted
         /\ now >= calls[i].issuedAt + client.timeout

\* C6 witness: a call timed out at its deadline, no response having arrived
C6_Witness ==
  \E i \in CallIds :
    /\ calls[i].timer = "fired"
    /\ calls[i].error = NetworkError("Request timed out")
    /\ now = calls[i].issuedAt + client.timeout

\* C7: no call is pending after its deadline has elapsed since its issuance.
C7_NoCallPendingPastDeadline ==
  \A i \in CallIds :
    Pending(calls[i]) => now <= calls[i].issuedAt + client.timeout

\* C8: a step in which the controller of a call is aborted is the firing of
\* that call's own due timer and leaves every other call as it was, and no
\* step at all changes two calls.
C8_AbortOnlyOwnCall ==
  [][\A i \in DOMAIN calls :
       /\ (calls'[i].aborted /\ ~calls[i].aborted) =>
            /\ calls[i].timer = "armed"
            /\ now >= calls[i].due
            /\ \A j \in DOMAIN calls : j # i => calls'[j] = calls[j]
       /\ \A j \in DOMAIN calls :
            (j # i /\ calls'[i] # calls[i]) => calls'[j] = calls[j]]_vars

\* C8 witness: one call has timed out while another, issued before that
\* deadline, got its response and resolved
C8_Witness ==
  \E i \in CallIds : \E j \in CallIds :
    /\ i # j
    /\ calls[i].aborted
    /\ calls[j].issuedAt <= calls[i].due
    /\ calls[j].pc = "resolved"
    /\ ~calls[j].aborted

\* C9: a settled call is either resolved with the decoded body of a 2xx
\* response and no error, or rejected with an error of one of the seven
\* kinds and no value.
C9_OutcomeInTaxonomy ==
  \A i \in CallIds :
    /\ calls[i].pc = "rejected" =>
         /\ calls[i].error.name \in
              {"VerifyForgeError", "AuthenticationError", "RateLimitError",
               "InsufficientCreditsError", "ValidationError", "APIError",
               "NetworkError"}
         /\ calls[i].value = Undef
    /\ calls[i].pc = "resolved" =>
         /\ calls[i].error = NoError
         /\ calls[i].responded
         /\ calls[i].response.status >= 200 /\ calls[i].response.status <= 299
         /\ Decoded(calls[i])
         /\ calls[i].value = calls[i].response.body.value

\* C9 witness: a 2xx response with a body that is no JSON ended in the Base kind
C9_Witness ==
  \E i \in CallIds :
    /\ calls[i].responded
    /\ calls[i].response.status = 200
    /\ calls[i].response.body = MalformedBody
    /\ calls[i].pc = "rejected"
    /\ calls[i].error.name = "VerifyForgeError"

\* C10: in every state, a call whose input passes the checks has reached
\* the transport exactly once and any other call never, also after the call
\* has failed.
C10_ExactlyOneTransportCall ==
  \A i \in CallIds :
    calls[i].fetches =
      (IF \/ /\ calls[i].op = "validate"
             /\ calls[i].arg.t = "string" /\ calls[i].arg.s # ""
          \/ /\ calls[i].op = "validateBulk"
             /\ calls[i].arg.t = "array"
             /\ Len(calls[i].arg.items) \in 1..100
         THEN 1 ELSE 0)

\* C10 witness: a call has failed at the transport after its one request
C10_Witness ==
  \E i \in CallIds :
    /\ calls[i].pc = "rejected"
    /\ calls[i].error = NetworkError("Network request failed")
    /\ ~calls[i].responded
    /\ calls[i].fetches = 1

\* C11: a settled call whose response has a 2xx status and a body that was
\* delivered whole and is JSON text is resolved with the decoded value
\* itself: the same fields, the lists in the body's order.
C11_SuccessValueUnchanged ==
  \A i \in CallIds :
    (/\ Settled(calls[i])
     /\ calls[i].responded
     /\ calls[i].response.status >= 200 /\ calls[i].response.status <= 299
     /\ Decoded(calls[i])) =>
      /\ calls[i].pc = "resolved"
      /\ calls[i].value = calls[i].response.body.value
      /\ calls[i].value.map = calls[i].response.body.value.map
      /\ GetProp(GetProp(calls[i].value, "data"), "mxRecordsList").items =
           GetProp(GetProp(calls[i].response.body.value, "data"), "mxRecordsList").items
      /\ GetProp(GetProp(calls[i].value, "data"), "results").items =
           GetProp(GetProp(calls[i].response.body.value, "data"), "results").items
      /\ GetProp(calls[i].value, "remainingCredits") =
           GetProp(calls[i].response.body.value, "remainingCredits")

\* C11 witness: validate resolved with the MX records in the order of the
\* body, which is not the order of their priorities, and 99 credits left
C11_Witness ==
  \E i \in CallIds :
    /\ calls[i].op = "validate"
    /\ calls[i].pc = "resolved"
    /\ calls[i].response.status = 200
    /\ GetProp(GetProp(calls[i].value, "data"), "mxRecordsList").items =
         <<MxRecord("mx2.b.com", 20), MxRecord("mx1.b.com", 10)>>
    /\ GetProp(calls[i].value, "remainingCredits") = Num(99)

\* C12: once the constructor has been called, it has thrown an error, left
\* no client and no call behind when the API key of the configuration is
\* absent or empty, and it has made the client, with that key, when the key
\* is a non-empty string; before it is called there is no client.
C12_ConstructNeedsApiKey ==
  /\ ~construction.called => clientState = "none" /\ calls = <<>>
  /\ construction.called =>
       IF construction.config.apiKey.t = "string" /\ construction.config.apiKey.s # ""
         THEN /\ clientState = "ready"
              /\ construction.error = NoError
              /\ client.apiKey = construction.config.apiKey.s
         ELSE /\ clientState = "failed"
              /\ construction.error # NoError
              /\ client = NoClient
              /\ calls = <<>>

\* C12 witness: the constructor was called with the empty string as API key
\* (and a base URL and a timeout) and threw
C12_Witness ==
  /\ construction.called
  /\ construction.config.apiKey = Str("")
  /\ construction.config.baseUrl.defined
  /\ clientState = "failed"
  /\ construction.error = ApiKeyRequired

\* C13: the base URL of a constructed client does not end with a slash.
C13_BaseUrlNeverEndsWithSlash ==
  clientState = "ready" =>
    /\ Len(getBaseUrl) > 0
    /\ getBaseUrl[Len(getBaseUrl)] # "/"

\* the failures that come from the transport: a rejected fetch and a
\* connection lost while the body is read
TransportFailures == {FetchTypeError, JsonStreamFailure.error}

\* C14: a call in whose request a failure was raised is rejected with that
\* failure itself when it is of a taxonomy kind; otherwise with the Network
\* error "Request timed out" when it is the abort; otherwise with the
\* Network error "Network request failed" when it is a transport failure;
\* otherwise with the Base kind carrying the failure's message ("Unknown
\* error occurred" when it has none); a Network error has no status code.
C14_FailureClassification ==
  \A i \in CallIds :
    calls[i].raised # NoError =>
      /\ calls[i].pc = "rejected"
      /\ calls[i].error =
           (IF calls[i].raised.name \in
                 {"VerifyForgeError", "AuthenticationError", "RateLimitError",
                  "InsufficientCreditsError", "ValidationError", "APIError",
                  "NetworkError"}
              THEN calls[i].raised
            ELSE IF calls[i].raised = AbortError
              THEN NetworkError("Request timed out")
            ELSE IF calls[i].raised \in TransportFailures
              THEN NetworkError("Network request failed")
            ELSE VerifyForgeError(IF calls[i].raised.name # ""
                                    THEN calls[i].raised.message
                                    ELSE "Unknown error occurred",
                                  Undef, Undef, Undef))
      /\ calls[i].error.name = "NetworkError" => calls[i].error.statusCode = Undef

====
